---- MODULE Spec2Model ----
(***************************************************************************)
(* Model of project_play.ipynb: an ETL notebook that reads song metadata   *)
(* and activity logs, derives the tables songs, artists, users, time and   *)
(* songplays with SQL statements, and writes each as a partitioned parquet *)
(* data set.                                                               *)
(*                                                                         *)
(* Values.  JSON fields the pipeline only copies or compares are strings;  *)
(* NULL is the SQL null of such a column.  The millisecond epoch ts is a   *)
(* pair <<seconds, milliseconds>> (the value seconds * 1000 +              *)
(* milliseconds exceeds TLC's 32-bit integers); NullTs is its null.  The   *)
(* result of a registered Python function is a string (see udf below): a   *)
(* sequence of decimal digits.                                             *)
(*                                                                         *)
(* Spec is one run of main() in a fresh notebook over every input of the   *)
(* bounds.  SpecRuns is repeated runs against the same catalog and output  *)
(* root, with engine failures and clear_my_tables() between runs.          *)
(***************************************************************************)
EXTENDS Integers, Sequences, FiniteSets, TLC

\* ---------------------------------------------------------------- bounds
MaxLogs   == 2    \* log events read from logs/*.json
MaxSongs  == 2    \* song records read from song_data
MaxRuns   == 2    \* calls of main() against the same catalog and output root
MaxFaults == 1    \* engine or storage failures injected over all runs

\* ---------------------------------------------------------------- values
NULL   == "<null>"
NullTs == <<>>

IsNull(v) == v = NULL

\* SQL "a = b" on a text column: true only when both sides are non-null and
\* equal.
SqlEq(a, b) == ~IsNull(a) /\ ~IsNull(b) /\ a = b

RECURSIVE Digits(_)
\* str(n) for a non-negative Python int.
Digits(n) == IF n < 10 THEN <<n>> ELSE Append(Digits(n \div 10), n % 10)

RECURSIVE ParseDigits(_)
\* The number a string of decimal digits denotes.
ParseDigits(d) ==
    IF Len(d) = 0 THEN 0
    ELSE 10 * ParseDigits(SubSeq(d, 1, Len(d) - 1)) + d[Len(d)]

\* str(int(x)) of a millisecond epoch x = <<seconds, milliseconds>>.
LongToString(x) ==
    IF x[1] = 0 THEN Digits(x[2])
    ELSE Digits(x[1]) \o <<x[2] \div 100, (x[2] \div 10) % 10, x[2] % 10>>

\* CAST(string AS BIGINT), as the engine applies it to the string side of a
\* comparison of a string with a bigint.
CastToLong(d) ==
    IF Len(d) <= 3 THEN <<0, ParseDigits(d)>>
    ELSE <<ParseDigits(SubSeq(d, 1, Len(d) - 3)),
           ParseDigits(SubSeq(d, Len(d) - 2, Len(d)))>>

\* ------------------------------------------------- datetime.fromtimestamp
\* Local wall-clock seconds since 1970-01-01T00:00 local, for the epoch
\* x / 1000.0 seconds and a local zone tzh hours east of UTC.
LocalSeconds(x, tzh) == x[1] + tzh * 3600

EpochDay(x, tzh) == LocalSeconds(x, tzh) \div 86400

\* Days since 1970-01-01 of the civil date y-m-d (proleptic Gregorian).
DaysFromCivil(y, m, d) ==
    LET yy  == IF m <= 2 THEN y - 1 ELSE y
        era == yy \div 400
        yoe == yy - era * 400
        mp  == IF m > 2 THEN m - 3 ELSE m + 9
        doy == (153 * mp + 2) \div 5 + d - 1
        doe == yoe * 365 + yoe \div 4 - yoe \div 100 + doy
    IN  era * 146097 + doe - 719468

\* The civil date [year, month, day] of a day number since 1970-01-01.
CivilFromDays(n) ==
    LET z   == n + 719468
        era == z \div 146097
        doe == z - era * 146097
        yoe == (doe - doe \div 1460 + doe \div 36524 - doe \div 146096) \div 365
        doy == doe - (365 * yoe + yoe \div 4 - yoe \div 100)
        mp  == (5 * doy + 2) \div 153
        d   == doy - (153 * mp + 2) \div 5 + 1
        m   == IF mp < 10 THEN mp + 3 ELSE mp - 9
        y   == yoe + era * 400 + (IF m <= 2 THEN 1 ELSE 0)
    IN  [year |-> y, month |-> m, day |-> d]

\* date.weekday(): Monday is 0 and Sunday is 6.  1970-01-01 was a Thursday.
WeekdayOfDay(n) == (n + 3) % 7

\* The day number of the Monday that starts ISO week 1 of a year.
IsoWeek1Monday(year) ==
    LET firstday     == DaysFromCivil(year, 1, 1)
        firstweekday == WeekdayOfDay(firstday)
        monday       == firstday - firstweekday
    IN  IF firstweekday > 3 THEN monday + 7 ELSE monday

\* date.isocalendar().week (the attribute of Python 3.9 and later).
IsoWeekOfDay(n) ==
    LET year == CivilFromDays(n).year
        week == (n - IsoWeek1Monday(year)) \div 7
    IN  IF n < IsoWeek1Monday(year)
        THEN (n - IsoWeek1Monday(year - 1)) \div 7 + 1
        ELSE IF week >= 52 /\ n >= IsoWeek1Monday(year + 1) THEN 1
        ELSE week + 1

\* --------------------------------------------------- registered functions
\* spark.udf.register(name, f) without a return type registers f with the
\* string return type: the engine delivers str(f(x)).
udf(n) == Digits(n)

get_timestamp(x)    == LongToString(x)
get_day(x, tzh)     == udf(CivilFromDays(EpochDay(x, tzh)).day)
get_hour(x, tzh)    == udf((LocalSeconds(x, tzh) % 86400) \div 3600)
get_week(x, tzh)    == udf(IsoWeekOfDay(EpochDay(x, tzh)))
get_month(x, tzh)   == udf(CivilFromDays(EpochDay(x, tzh)).month)
get_year(x, tzh)    == udf(CivilFromDays(EpochDay(x, tzh)).year)
\* date.isoweekday() in place of date.weekday().
weekday_isoAs(x, tzh) == udf(WeekdayOfDay(EpochDay(x, tzh)) + 1)
get_weekday(x, tzh) == udf(WeekdayOfDay(EpochDay(x, tzh)))

\* ------------------------------------------------------------ the inputs
\* One activity-log record (a line of a file under logs/).
LogRecord(u, lvl, pg, t, art, sess) ==
    [userId    |-> u,
     firstName |-> IF u = NULL THEN NULL ELSE "first-" \o u,
     lastName  |-> IF u = NULL THEN NULL ELSE "last-" \o u,
     gender    |-> IF u = NULL THEN NULL ELSE "F",
     level     |-> lvl,
     page      |-> pg,
     ts        |-> t,
     sessionId |-> sess,
     userAgent |-> "agent-" \o sess,
     artist    |-> art]

\* One song metadata record (a file under song_data/).
SongRecord(sid, aid, name, loc, yr) ==
    [song_id          |-> sid,
     title            |-> "title-" \o sid,
     artist_id        |-> aid,
     year             |-> yr,
     duration         |-> "200.5",
     artist_name      |-> name,
     artist_location  |-> loc,
     artist_latitude  |-> IF loc = NULL THEN NULL ELSE "35.1",
     artist_longitude |-> IF loc = NULL THEN NULL ELSE "-90.0"]

FixedTs == <<1541207953, 796>>   \* 1541207953796 ms = 2018-11-03T01:19:13.796Z
EveTs   == <<1546300799, 0>>     \* 1546300799000 ms = 2018-12-31T23:59:59Z

\* The log records the inputs are drawn from.
LogRecords ==
    << LogRecord("u1", "free", "NextSong", FixedTs, "A", "s1"),
       LogRecord("u1", "paid", "NextSong", FixedTs, "A", "s2"),
       LogRecord("u2", "free", "NextSong", EveTs, "a", "s3"),
       LogRecord("u2", "free", "Home", FixedTs, NULL, "s3"),
       LogRecord(NULL, "free", "NextSong", EveTs, NULL, "s4"),
       LogRecord("u1", "free", "NextSong", NullTs, "B", "s1"),
       LogRecord("u2", "paid", "Home", EveTs, "A", "s5") >>

\* The song records the inputs are drawn from.
SongRecords ==
    << SongRecord("S1", "AR1", "A", "L1", "2018"),
       SongRecord("S2", "AR1", "A", "L2", "0"),
       SongRecord("S3", "AR2", "B", NULL, NULL),
       SongRecord("S4", NULL, NULL, "L3", "1999") >>

\* Hours east of UTC of the zone datetime.fromtimestamp converts to.
LocalZones == {-8, 0, 9}

\* The non-empty selections of at most max of the records 1..n, each as a
\* non-decreasing sequence of indices (a data set has no row order).
Picks(n, max) ==
    {s \in UNION {[1..k -> 1..n] : k \in 1..max} :
        \A i \in 1..(Len(s) - 1) : s[i] <= s[i + 1]}

LogInputs  == {[i \in DOMAIN s |-> LogRecords[s[i]]] : s \in Picks(Len(LogRecords), MaxLogs)}
SongInputs == {[i \in DOMAIN s |-> SongRecords[s[i]]] : s \in Picks(Len(SongRecords), MaxSongs)}

\* ----------------------------------------------------------- the queries
\* The queries without their WHERE clause.
NextSongAs(e) == TRUE
\* WHERE page = 'NextSong'
NextSong(e) == SqlEq(e.page, "NextSong")

\* SELECT song_id, title, artist_id, year, duration FROM songs_json
SongsRow(s) ==
    [song_id |-> s.song_id, title |-> s.title, artist_id |-> s.artist_id,
     year |-> s.year, duration |-> s.duration]

SelectSongs(songs_json) == [i \in DOMAIN songs_json |-> SongsRow(songs_json[i])]

\* SELECT artist_id, artist_name AS name, artist_location AS location,
\*        artist_latitude AS latitude, artist_longitude AS longitude FROM songs_json
ArtistsRow(s) ==
    [artist_id |-> s.artist_id, name |-> s.artist_name,
     location |-> s.artist_location, latitude |-> s.artist_latitude,
     longitude |-> s.artist_longitude]

SelectArtists(songs_json) == [i \in DOMAIN songs_json |-> ArtistsRow(songs_json[i])]

\* SELECT userId AS user_id, firstName AS first_name, lastName AS last_name,
\*        gender, level FROM logs_json WHERE page = 'NextSong'
UsersRow(e) ==
    [user_id |-> e.userId, first_name |-> e.firstName, last_name |-> e.lastName,
     gender |-> e.gender, level |-> e.level]

SelectUsers(logs_json) ==
    LET q == SelectSeq(logs_json, NextSong)
    IN  [i \in DOMAIN q |-> UsersRow(q[i])]

\* SELECT get_timestamp(ts) AS start_time, get_hour(ts) AS hour, ... FROM
\* logs_json WHERE page = 'NextSong'
TimeRow(e, tzh) ==
    [start_time |-> get_timestamp(e.ts),
     hour       |-> get_hour(e.ts, tzh),
     day        |-> get_day(e.ts, tzh),
     week       |-> get_week(e.ts, tzh),
     month      |-> get_month(e.ts, tzh),
     year       |-> get_year(e.ts, tzh),
     weekday    |-> get_weekday(e.ts, tzh)]

\* SELECT DISTINCT in place of SELECT.
SelectTimeAs(logs_json, tzh) ==
    LET q    == SelectSeq(logs_json, NextSong)
        rows == [i \in DOMAIN q |-> TimeRow(q[i], tzh)]
        First(i) == \A j \in 1..(i - 1) : rows[j] # rows[i]
        keep == SelectSeq([i \in DOMAIN rows |-> i], First)
    IN  [n \in DOMAIN keep |-> rows[keep[n]]]
SelectTime(logs_json, tzh) ==
    LET q == SelectSeq(logs_json, NextSong)
    IN  [i \in DOMAIN q |-> TimeRow(q[i], tzh)]

\* int(None) and None / 1000.0 raise TypeError: the query fails when a row
\* that passes the filter has a null ts.
UdfRaises(logs_json) ==
    \E i \in DOMAIN logs_json : NextSong(logs_json[i]) /\ logs_json[i].ts = NullTs

\* ON t.start_time = l.ts AND l.page = 'NextSong'
TimeJoinsLog(t, l) ==
    /\ l.ts # NullTs
    /\ CastToLong(t.start_time) = l.ts
    /\ NextSong(l)

\* A null-safe comparison (<=>) in place of =.
SongJoinsLogAs(s, l) == s.artist_name = l.artist
\* ON s.artist_name = l.artist
SongJoinsLog(s, l) == SqlEq(s.artist_name, l.artist)

\* FROM time AS t JOIN logs_json AS l ON ... JOIN songs_json AS s ON ...:
\* the triples <<i, j, k>> of row numbers of time, logs_json and songs_json
\* the two inner joins keep, one per result row.
JoinedRows(time, logs_json, songs_json) ==
    LET nl  == Len(logs_json)
        ns  == Len(songs_json)
        all == [n \in 1..(Len(time) * nl * ns) |->
                  << (n - 1) \div (nl * ns) + 1,
                     (((n - 1) \div ns) % nl) + 1,
                     ((n - 1) % ns) + 1 >>]
        Kept(p) == /\ TimeJoinsLog(time[p[1]], logs_json[p[2]])
                   /\ SongJoinsLog(songs_json[p[3]], logs_json[p[2]])
    IN  SelectSeq(all, Kept)

\* s.artist_name in place of s.artist_location.
SongplaysRowAs(t, l, s) ==
    [start_time |-> l.ts, year |-> t.year, month |-> t.month,
     user_id |-> l.userId, level |-> l.level,
     song_id |-> s.song_id, artist_id |-> s.artist_id,
     session_id |-> l.sessionId, location |-> s.artist_name,
     user_agent |-> l.userAgent]
\* SELECT l.ts AS start_time, t.year AS year, t.month AS month, l.userId AS
\* user_id, l.level AS level, s.song_id AS song_id, s.artist_id AS artist_id,
\* l.sessionId AS session_id, s.artist_location AS location, l.userAgent AS
\* user_agent
SongplaysRow(t, l, s) ==
    [start_time |-> l.ts, year |-> t.year, month |-> t.month,
     user_id |-> l.userId, level |-> l.level,
     song_id |-> s.song_id, artist_id |-> s.artist_id,
     session_id |-> l.sessionId, location |-> s.artist_location,
     user_agent |-> l.userAgent]

SelectSongplays(joined, time, logs_json, songs_json) ==
    [n \in DOMAIN joined |->
        SongplaysRow(time[joined[n][1]], logs_json[joined[n][2]],
                     songs_json[joined[n][3]])]

\* ------------------------------------------------------------ the writes
Tables    == {"songs", "artists", "users", "time", "songplays"}
TempViews == {"songs_json", "logs_json"}

\* .partitionBy(...) of each write, in nesting order.
PartitionBy ==
    [songs     |-> <<"year", "artist_id">>,
     artists   |-> <<"name">>,
     users     |-> <<"user_id">>,
     time      |-> <<"year", "month">>,
     songplays |-> <<"year", "month">>]

\* The null of a column: year and month of time and songplays come from a
\* registered function, every other partition column is a copied JSON field.
NullOf(table) == IF table \in {"time", "songplays"} THEN NullTs ELSE NULL

\* The file a row goes to: one directory level per partition column; a null
\* value goes to the directory __HIVE_DEFAULT_PARTITION__ of its level.
PartitionedFile(table, r) ==
    [dir |-> [c \in DOMAIN PartitionBy[table] |->
                [col     |-> PartitionBy[table][c],
                 default |-> r[PartitionBy[table][c]] = NullOf(table)]],
     row |-> r]

\* table.write.partitionBy(...).mode("overwrite").parquet(path): the new
\* contents of the path.
\* A write that skips the rows with a null partition column.
ParquetAs(table, rows) ==
    LET NoNull(r) == \A c \in DOMAIN PartitionBy[table] :
                        r[PartitionBy[table][c]] # NullOf(table)
        kept == SelectSeq(rows, NoNull)
    IN  [i \in DOMAIN kept |-> PartitionedFile(table, kept[i])]
Parquet(table, rows) == [i \in DOMAIN rows |-> PartitionedFile(table, rows[i])]

\* --------------------------------------------------------------- state
VARIABLES
    log_files,   \* the records under input_data/logs/*.json
    song_files,  \* the records under input_data/song_data
    tz,          \* hours east of UTC of the local zone of the Python workers
    pc,          \* the step main() executes next, or "idle", "done", "aborted"
    catalog,     \* names of the tables and temporary views that exist
    rel,         \* the rows of each table and temporary view
    udfs,        \* names of the functions registered with the session
    joined,      \* for each row of songplays, the rows of time, logs_json and
                 \* songs_json the join built it from
    out,         \* the contents of the five output paths
    run,         \* calls of main() so far
    faults,      \* injected engine failures so far
    before,      \* out when the current run started
    failedAt,    \* the step the current run failed at, "" if none
    outcomes,    \* how each finished run ended
    firstOut     \* out when the first run ended

vars == <<log_files, song_files, tz, pc, catalog, rel, udfs, joined, out, run,
          faults, before, failedAt, outcomes, firstOut>>

inputs == <<log_files, song_files, tz>>

\* The steps of main(), in program order.
Steps ==
    << "create_spark_session",
       "songs_json", "songs", "songs_write", "artists", "artists_write",
       "logs_json", "users", "users_write", "udf_register",
       "time", "time_write", "songplays", "songplays_write" >>

StepNo(step) == CHOOSE n \in DOMAIN Steps : Steps[n] = step

\* The state of the program counter after a step has completed.
After(step) ==
    IF StepNo(step) = Len(Steps) THEN "done" ELSE Steps[StepNo(step) + 1]

\* The output path each write step writes.
WriteSteps ==
    [songs_write     |-> "songs",
     artists_write   |-> "artists",
     users_write     |-> "users",
     time_write      |-> "time",
     songplays_write |-> "songplays"]

Udfs == {"get_timestamp", "get_day", "get_hour", "get_week", "get_month",
         "get_year", "get_weekday"}

NoRows == [n \in Tables \cup TempViews |-> <<>>]

\* A fresh notebook: nothing has run, the catalog and the output paths are
\* empty.
Fresh ==
    /\ pc = "idle"
    /\ catalog = {}
    /\ rel = NoRows
    /\ udfs = {}
    /\ joined = <<>>
    /\ out = [t \in Tables |-> <<>>]
    /\ run = 0
    /\ faults = 0
    /\ before = [t \in Tables |-> <<>>]
    /\ failedAt = ""
    /\ outcomes = <<>>
    /\ firstOut = [t \in Tables |-> <<>>]

Init ==
    /\ log_files \in LogInputs
    /\ song_files \in SongInputs
    /\ tz \in LocalZones
    /\ Fresh

\* The inputs of the runs that are repeated and interrupted.
RerunLogInputs ==
    { <<LogRecords[1], LogRecords[2]>>,
      <<LogRecords[3], LogRecords[4]>>,
      <<LogRecords[1], LogRecords[5], LogRecords[7]>>,
      <<LogRecords[1], LogRecords[6]>> }

RerunSongInputs ==
    { <<SongRecords[1], SongRecords[3]>>,
      <<SongRecords[1], SongRecords[2], SongRecords[4]>> }

InitRuns ==
    /\ log_files \in RerunLogInputs
    /\ song_files \in RerunSongInputs
    /\ tz = 0
    /\ Fresh

\* ---------------------------------------------------- how a step can end
\* An exception that is caught and ignored: main() goes on.
RaisedAs(step) == After(step)
\* An uncaught exception leaves main(): the run is over.
Raised(step) == "aborted"

Finish(outcome, newOut) ==
    /\ outcomes' = Append(outcomes, outcome)
    /\ firstOut' = IF outcomes = <<>> THEN newOut ELSE firstOut

\* The step completes and main() goes on (or returns, after the last step).
Completes(step, newOut) ==
    /\ pc' = After(step)
    /\ UNCHANGED failedAt
    /\ IF After(step) = "done"
       THEN Finish("done", newOut)
       ELSE UNCHANGED <<outcomes, firstOut>>

\* The step raises.
Raises(step, why, newOut) ==
    /\ pc' = Raised(step)
    /\ failedAt' = step
    /\ IF Raised(step) = "aborted"
       THEN Finish(why, newOut)
       ELSE UNCHANGED <<outcomes, firstOut>>

\* ---------------------------------------------------------------- main()
\* main() is called: from a fresh notebook, or again after a run has ended.
Main ==
    /\ pc \in {"idle", "done", "aborted"}
    /\ run < MaxRuns
    /\ run' = run + 1
    /\ pc' = Steps[1]
    /\ before' = out
    /\ failedAt' = ""
    /\ UNCHANGED <<inputs, catalog, rel, udfs, joined, out, faults, outcomes, firstOut>>

\* spark = create_spark_session(): getOrCreate() returns the session.
CreateSparkSession ==
    /\ pc = "create_spark_session"
    /\ Completes("create_spark_session", out)
    /\ UNCHANGED <<inputs, catalog, rel, udfs, joined, out, run, faults, before>>

\* df.createOrReplaceTempView(name)
CreateOrReplaceTempView(step, rows) ==
    /\ pc = step
    /\ catalog' = catalog \cup {step}
    /\ rel' = [rel EXCEPT ![step] = rows]
    /\ Completes(step, out)
    /\ UNCHANGED <<inputs, udfs, joined, out, run, faults, before>>

\* spark.sql("CREATE TABLE name AS SELECT ..."): raises when the table is in
\* the catalog already.
CreateTableAsSelect(step, rows) ==
    /\ pc = step
    /\ IF step \in catalog
       THEN /\ Raises(step, "table exists", out)
            /\ UNCHANGED <<catalog, rel>>
       ELSE /\ catalog' = catalog \cup {step}
            /\ rel' = [rel EXCEPT ![step] = rows]
            /\ Completes(step, out)
    /\ UNCHANGED <<inputs, udfs, joined, out, run, faults, before>>

\* spark.sql("SELECT * FROM name").write.partitionBy(...).mode("overwrite")
\*      .parquet(path)
WriteParquet(step) ==
    /\ pc = step
    /\ out' = [out EXCEPT ![WriteSteps[step]] =
                  Parquet(WriteSteps[step], rel[WriteSteps[step]])]
    /\ Completes(step, out')
    /\ UNCHANGED <<inputs, catalog, rel, udfs, joined, run, faults, before>>

SongsJson == CreateOrReplaceTempView("songs_json", song_files)

SongsTable == CreateTableAsSelect("songs", SelectSongs(rel.songs_json))

SongsWrite == WriteParquet("songs_write")

ArtistsTable == CreateTableAsSelect("artists", SelectArtists(rel.songs_json))

ArtistsWrite == WriteParquet("artists_write")

LogsJson == CreateOrReplaceTempView("logs_json", log_files)

UsersTable == CreateTableAsSelect("users", SelectUsers(rel.logs_json))

UsersWrite == WriteParquet("users_write")

\* The seven spark.udf.register calls.
UdfRegister ==
    /\ pc = "udf_register"
    /\ udfs' = udfs \cup Udfs
    /\ Completes("udf_register", out)
    /\ UNCHANGED <<inputs, catalog, rel, joined, out, run, faults, before>>

\* CREATE TABLE time AS SELECT get_timestamp(ts) ...: as CreateTableAsSelect,
\* and the query itself raises when a registered function does.
TimeTable ==
    /\ pc = "time"
    /\ Udfs \subseteq udfs
    /\ IF "time" \notin catalog /\ UdfRaises(rel.logs_json)
       THEN /\ Raises("time", "udf raised", out)
            /\ UNCHANGED <<inputs, catalog, rel, udfs, joined, out, run, faults, before>>
       ELSE CreateTableAsSelect("time", SelectTime(rel.logs_json, tz))

TimeWrite == WriteParquet("time_write")

\* CREATE TABLE songplays AS (SELECT ... FROM time JOIN logs_json JOIN songs_json)
SongplaysTable ==
    /\ pc = "songplays"
    /\ IF "songplays" \in catalog
       THEN /\ Raises("songplays", "table exists", out)
            /\ UNCHANGED <<catalog, rel, joined>>
       ELSE LET j == JoinedRows(rel.time, rel.logs_json, rel.songs_json)
            IN  /\ joined' = j
                /\ catalog' = catalog \cup {"songplays"}
                /\ rel' = [rel EXCEPT !.songplays =
                              SelectSongplays(j, rel.time, rel.logs_json, rel.songs_json)]
                /\ Completes("songplays", out)
    /\ UNCHANGED <<inputs, udfs, out, run, faults, before>>

SongplaysWrite == WriteParquet("songplays_write")

\* The engine or the storage fails during a step (session start, read, query
\* or write).  A write that fails leaves its path as it was, or with the old
\* files deleted and some of the new ones written.
EngineFailure ==
    /\ pc \in {Steps[n] : n \in DOMAIN Steps}
    /\ faults < MaxFaults
    /\ faults' = faults + 1
    /\ IF pc \in DOMAIN WriteSteps
       THEN LET t   == WriteSteps[pc]
                new == Parquet(t, rel[t])
            IN  \E partial \in {out[t]} \cup {SubSeq(new, 1, k) : k \in 0..Len(new)} :
                    out' = [out EXCEPT ![t] = partial]
       ELSE UNCHANGED out
    /\ Raises(pc, "engine failure", out')
    /\ UNCHANGED <<inputs, catalog, rel, udfs, joined, run, before>>

\* clear_my_tables(), run by hand between two runs: the six DROP TABLE IF
\* EXISTS statements (users is dropped twice; time and songplays are not
\* dropped).
Dropped == {"logs_json", "songs_json", "songs", "artists", "users", "users"}

ClearMyTables ==
    /\ pc \in {"done", "aborted"}
    /\ catalog \cap Dropped # {}
    /\ catalog' = catalog \ Dropped
    /\ rel' = [n \in DOMAIN rel |-> IF n \in Dropped THEN <<>> ELSE rel[n]]
    /\ UNCHANGED <<inputs, pc, udfs, joined, out, run, faults, before, failedAt,
                   outcomes, firstOut>>

\* The first call of main() in a fresh notebook.
FirstRun == pc = "idle" /\ Main

\* One step of process_song_data or process_log_data.
Step ==
    \/ CreateSparkSession
    \/ SongsJson
    \/ SongsTable
    \/ SongsWrite
    \/ ArtistsTable
    \/ ArtistsWrite
    \/ LogsJson
    \/ UsersTable
    \/ UsersWrite
    \/ UdfRegister
    \/ TimeTable
    \/ TimeWrite
    \/ SongplaysTable
    \/ SongplaysWrite

\* One run of main() over every input, on an engine and a store that work.
Next == FirstRun \/ Step

Spec == Init /\ [][Next]_vars

\* Repeated runs against the same catalog and output root, with engine
\* failures and clear_my_tables() between runs.
NextRuns == Main \/ Step \/ EngineFailure \/ ClearMyTables

SpecRuns == InitRuns /\ [][NextRuns]_vars

\* ------------------------------------------------------------ properties
StepSet == {Steps[n] : n \in DOMAIN Steps}

\* The run has completed the step (the run may have failed later).
Past(step) ==
    \/ pc = "done"
    \/ pc \in StepSet /\ StepNo(pc) > StepNo(step)
    \/ pc = "aborted" /\ StepNo(failedAt) > StepNo(step)

\* The rows of the files of an output path.
RowsOf(files) == [i \in DOMAIN files |-> files[i].row]

\* The numbers of the log events with page = 'NextSong'.
Qualifying == {k \in DOMAIN log_files : log_files[k].page = "NextSong"}

\* C1: every row of users, time and songplays, in the table and in the
\* written output, comes from a log event whose page is 'NextSong'.
C1_OnlyNextSong ==
    /\ \A r \in {rel.users[i] : i \in DOMAIN rel.users}
             \cup {out.users[i].row : i \in DOMAIN out.users} :
          \E k \in Qualifying : r = UsersRow(log_files[k])
    /\ \A r \in {rel.time[i] : i \in DOMAIN rel.time}
             \cup {out.time[i].row : i \in DOMAIN out.time} :
          \E k \in Qualifying :
              log_files[k].ts # NullTs /\ r = TimeRow(log_files[k], tz)
    /\ \A n \in DOMAIN joined :
          /\ joined[n][2] \in Qualifying
          /\ rel.songplays[n].start_time = log_files[joined[n][2]].ts
          /\ rel.songplays[n].session_id = log_files[joined[n][2]].sessionId
    /\ \A r \in {out.songplays[i].row : i \in DOMAIN out.songplays} :
          \E k \in Qualifying :
              r.start_time = log_files[k].ts /\ r.session_id = log_files[k].sessionId

C1_Witness ==
    /\ pc = "done"
    /\ \E k \in DOMAIN log_files : log_files[k].page # "NextSong"
    /\ Len(out.users) > 0 /\ Len(out.time) > 0 /\ Len(out.songplays) > 0

\* C2: a second run with the same inputs, catalog and output root that meets
\* no engine failure completes, and leaves the output paths as the first
\* (completed) run left them.
C2_RerunCompletes ==
    (Len(outcomes) >= 2 /\ outcomes[1] = "done" /\ outcomes[2] # "engine failure")
        => (outcomes[2] = "done" /\ (Len(outcomes) = 2 => out = firstOut))

\* C3: every songplays row pairs a 'NextSong' log event with a song record
\* whose artist_name equals the event's (non-null) artist, and a log event
\* whose artist equals no artist_name is in no songplays row.
C3_ArtistMatch ==
    /\ \A n \in DOMAIN joined :
          LET l == log_files[joined[n][2]]
              s == song_files[joined[n][3]]
          IN  /\ l.page = "NextSong"
              /\ l.artist # NULL
              /\ s.artist_name = l.artist
              /\ rel.songplays[n].song_id = s.song_id
              /\ rel.songplays[n].session_id = l.sessionId
    /\ \A k \in DOMAIN log_files :
          (\A j \in DOMAIN song_files :
              log_files[k].artist = NULL
                  \/ song_files[j].artist_name # log_files[k].artist)
              => \A n \in DOMAIN joined : joined[n][2] # k
    /\ Len(rel.songplays) = Len(joined)

C3_Witness ==
    /\ pc = "done"
    /\ Len(rel.songplays) > 0
    /\ \E k \in Qualifying : log_files[k].artist = NULL
    /\ \E j \in DOMAIN song_files : song_files[j].artist_name = NULL

\* C4: in every songplays row, location, song_id and artist_id are those of
\* the song record the row was joined to, and user_id, level, session_id and
\* user_agent are those of the joined log event.
C4_LocationFromSong ==
    /\ Len(rel.songplays) = Len(joined)
    /\ \A n \in DOMAIN joined :
          LET l == log_files[joined[n][2]]
              s == song_files[joined[n][3]]
              r == rel.songplays[n]
          IN  /\ r.location = s.artist_location
              /\ r.song_id = s.song_id
              /\ r.artist_id = s.artist_id
              /\ r.user_id = l.userId
              /\ r.level = l.level
              /\ r.session_id = l.sessionId
              /\ r.user_agent = l.userAgent
    /\ Past("songplays_write") => RowsOf(out.songplays) = rel.songplays

C4_Witness ==
    /\ pc = "done"
    /\ \E n \in DOMAIN out.songplays :
          /\ out.songplays[n].row.location = "L2"
          /\ out.songplays[n].row.song_id = "S2"
    /\ \E n \in DOMAIN out.songplays :
          /\ out.songplays[n].row.location = "L1"
          /\ out.songplays[n].row.song_id = "S1"

\* C5: the users table holds no two identical rows.
C5_UsersDistinct ==
    \A i, j \in DOMAIN rel.users : i # j => rel.users[i] # rel.users[j]

\* C6: the time table has one row per log event with page = 'NextSong': as
\* many rows as qualifying events, and as many rows with a given start_time
\* as qualifying events with that ts.
C6_TimeRowPerEvent ==
    "time" \in catalog =>
        /\ Len(rel.time) = Cardinality(Qualifying)
        /\ \A k \in Qualifying :
              Cardinality({i \in DOMAIN rel.time :
                              CastToLong(rel.time[i].start_time) = log_files[k].ts})
                = Cardinality({m \in Qualifying : log_files[m].ts = log_files[k].ts})
        /\ Past("time_write") => RowsOf(out.time) = rel.time

C6_Witness ==
    /\ pc = "done"
    /\ \E i, j \in DOMAIN rel.time :
          i # j /\ rel.time[i].start_time = rel.time[j].start_time

\* The partition columns of a written file that are null.
NullPartitions(table, f) ==
    {c \in DOMAIN PartitionBy[table] : f.row[PartitionBy[table][c]] = NullOf(table)}

\* C7 (as claimed): no written row has a null partition column.
C7_NoNullPartition ==
    \A t \in Tables : \A i \in DOMAIN out[t] : NullPartitions(t, out[t][i]) = {}

\* C7 (amended): every row of a table is written to the table's path, a row
\* with a null partition column included, which goes to the default
\* partition directory of that level; the rows of time and songplays have no
\* null year or month.
C7_NullPartitionWritten ==
    \A w \in DOMAIN WriteSteps :
        LET t == WriteSteps[w]
        IN  /\ Past(w) => RowsOf(out[t]) = rel[t]
            /\ \A i \in DOMAIN out[t] :
                  /\ \A c \in NullPartitions(t, out[t][i]) : out[t][i].dir[c].default
                  /\ t \in {"time", "songplays"} => NullPartitions(t, out[t][i]) = {}
                  /\ [c \in DOMAIN out[t][i].dir |-> out[t][i].dir[c].col] = PartitionBy[t]

C7_Witness ==
    /\ pc = "done"
    /\ \E i \in DOMAIN out.songs : NullPartitions("songs", out.songs[i]) = {1}
    /\ \E i \in DOMAIN out.users : NullPartitions("users", out.users[i]) = {1}
    /\ Len(out.songplays) > 0

\* The time rows of the timestamp 1541207953796.
FixedRows == {i \in DOMAIN rel.time : rel.time[i].start_time = LongToString(FixedTs)}

\* C8 (as claimed): the weekday of 1541207953796 is the Sunday index, 6.
C8_FixedIsSunday ==
    \A i \in FixedRows : rel.time[i].weekday = <<6>>

\* C8 (amended): with 0 = Monday ... 6 = Sunday, the weekday of
\* 1541207953796 (2018-11-03T01:19:13Z) is 5, Saturday, and 4, Friday, where
\* the local zone is more than 1:19:13 behind UTC; 1546300799000
\* (2018-12-31T23:59:59Z) is 0, Monday, and 1, Tuesday, where the local date
\* is already 2019-01-01.
C8_FixedIsSaturday ==
    /\ \A i \in FixedRows :
          rel.time[i].weekday = IF tz * 3600 < -4753 THEN <<4>> ELSE <<5>>
    /\ \A i \in DOMAIN rel.time :
          rel.time[i].start_time = LongToString(EveTs) =>
              rel.time[i].weekday = IF tz > 0 THEN <<1>> ELSE <<0>>

C8_Witness ==
    /\ pc = "done"
    /\ FixedRows # {}
    /\ tz < 0

\* After a failed run: the paths of the writes after the failed step are as
\* before the run, the paths of the writes before it hold the rows of their
\* tables.
C9_StateOk ==
    pc = "aborted" =>
        \A w \in DOMAIN WriteSteps :
            LET t == WriteSteps[w]
            IN  /\ StepNo(w) > StepNo(failedAt) => out[t] = before[t]
                /\ (StepNo(w) < StepNo(failedAt) /\ t \in catalog)
                      => out[t] = [i \in DOMAIN rel[t] |->
                                     [dir |-> out[t][i].dir, row |-> rel[t][i]]]

\* One step: the program counter moves in program order or to "aborted"; a
\* failing step aborts and touches no path but its own; between runs the
\* outputs do not change.
C9_StepOk ==
    /\ pc' # pc =>
          \/ pc \in StepSet /\ pc' = "aborted"
          \/ pc \in StepSet /\ StepNo(pc) < Len(Steps) /\ pc' = Steps[StepNo(pc) + 1]
          \/ pc = Steps[Len(Steps)] /\ pc' = "done"
          \/ pc \notin StepSet /\ pc' = Steps[1]
    /\ (faults' # faults \/ (pc \in Tables /\ pc \in catalog)) =>
          /\ pc' = "aborted"
          /\ \A t \in Tables : (pc \notin DOMAIN WriteSteps \/ WriteSteps[pc] # t)
                => out'[t] = out[t]
          /\ rel' = rel /\ catalog' = catalog
    /\ pc \notin StepSet => out' = out /\ joined' = joined

\* C9: the steps run in program order; a step that fails ends the run; the
\* failure changes no output path but the one the failed step was writing;
\* after it nothing runs or changes the outputs until main() is called
\* again; the paths of earlier writes hold what this run wrote and the paths
\* of later writes hold what they held before the run.
C9_AbortNoRollback == []C9_StateOk /\ [][C9_StepOk]_vars

C9_Witness ==
    /\ pc = "aborted"
    /\ run = 2
    /\ failedAt = "time"
    /\ Len(out.songs) > 0
    /\ Len(before.songplays) > 0
    /\ "songs" \in catalog

\* C10: songplays has one row per pair of a 'NextSong' log event and a song
\* record whose artist_name equals the event's artist.
C10_OneRowPerMatch ==
    "songplays" \in catalog =>
        Len(rel.songplays) =
            Cardinality({p \in Qualifying \X DOMAIN song_files :
                            /\ log_files[p[1]].artist # NULL
                            /\ song_files[p[2]].artist_name = log_files[p[1]].artist})

====
